---- MODULE Spec2Model ----
(***************************************************************************)
(* A model of the go-lexer engine: the scanning cursor over a byte string, *)
(* the rewind stack of consumed runes, the state-function run loop and the *)
(* buffered token channel between the run loop and its consumer.           *)
(***************************************************************************)
EXTENDS Integers, Sequences, FiniteSets, TLC

\* ------------------------------------------------------------------ bounds
\* Longest input string of the scanning specification, in bytes.
MaxScanLen == 3
\* Most tokens one run sends.
MaxEmits == 2
\* Deepest rewind stack.
MaxRewind == 5
\* Most IgnoreCharacter calls of one run.
MaxMutations == 1
\* Deepest state record.
MaxRecord == 2
\* Most errors one run reports.
MaxErrors == 1

\* The bytes inputs are made of: 'a' and the two bytes of U+00E9, each of
\* which is no valid UTF-8 without the other.
Bytes == {97, 195, 169}

\* ------------------------------------------------------- program constants
EOFToken == -1
ErrorToken == 0
\* unicode/utf8: RuneError, as DecodeRuneInString returns it for a bad byte.
RuneError == 65533

\* ------------------------------------------------------------ unicode/utf8
IsCont(b) == b >= 128 /\ b <= 191

\* The second byte a UTF-8 sequence starting with b0 accepts (utf8.acceptRanges).
AcceptLo(b0) == IF b0 = 224 THEN 160 ELSE IF b0 = 240 THEN 144 ELSE 128
AcceptHi(b0) == IF b0 = 237 THEN 159 ELSE IF b0 = 244 THEN 143 ELSE 191

\* The length the first byte announces; 0 for a byte that starts no sequence.
SeqLen(b0) ==
  IF b0 < 128 THEN 1
  ELSE IF b0 >= 194 /\ b0 <= 223 THEN 2
  ELSE IF b0 >= 224 /\ b0 <= 239 THEN 3
  ELSE IF b0 >= 240 /\ b0 <= 244 THEN 4
  ELSE 0

\* utf8.DecodeRuneInString: the first rune of s and its width in bytes.
DecodeRuneInString(s) ==
  IF Len(s) = 0 THEN [r |-> RuneError, s |-> 0]
  ELSE
    LET b0 == s[1]
        n == SeqLen(b0)
        bad == [r |-> RuneError, s |-> 1]
    IN IF n = 1 THEN [r |-> b0, s |-> 1]
       ELSE IF n = 0 \/ Len(s) < n THEN bad
       ELSE IF s[2] < AcceptLo(b0) \/ s[2] > AcceptHi(b0) THEN bad
       ELSE IF n = 2 THEN [r |-> (b0 % 32) * 64 + (s[2] % 64), s |-> 2]
       ELSE IF ~IsCont(s[3]) THEN bad
       ELSE IF n = 3
         THEN [r |-> (b0 % 16) * 4096 + (s[2] % 64) * 64 + (s[3] % 64), s |-> 3]
       ELSE IF ~IsCont(s[4]) THEN bad
       ELSE [r |-> (b0 % 8) * 262144 + (s[2] % 64) * 4096 + (s[3] % 64) * 64
                   + (s[4] % 64),
             s |-> 4]

\* utf8.RuneLen: the bytes the encoding of r takes, -1 for no valid rune.
RuneLen(r) ==
  IF r < 0 THEN -1
  ELSE IF r <= 127 THEN 1
  ELSE IF r <= 2047 THEN 2
  ELSE IF r >= 55296 /\ r <= 57343 THEN -1
  ELSE IF r <= 65535 THEN 3
  ELSE IF r <= 1114111 THEN 4
  ELSE -1

\* string(r): the rune a conversion of r to a string holds.
StringOfRune(r) == IF RuneLen(r) = -1 THEN RuneError ELSE r

\* The runes of s, as a range loop over s decodes them.
RECURSIVE RunesOf(_)
RunesOf(s) ==
  IF Len(s) = 0 THEN {}
  ELSE LET d == DecodeRuneInString(s)
       IN {d.r} \cup RunesOf(SubSeq(s, d.s + 1, Len(s)))

\* utf8.ValidString: no byte of s decodes as a bad byte.
RECURSIVE ValidString(_)
ValidString(s) ==
  IF Len(s) = 0 THEN TRUE
  ELSE LET d == DecodeRuneInString(s)
       IN ~(d.r = RuneError /\ d.s = 1) /\ ValidString(SubSeq(s, d.s + 1, Len(s)))

\* strings.ContainsRune(chars, r).
ContainsRune(chars, r) == RuneLen(r) /= -1 /\ r \in RunesOf(chars)

\* ------------------------------------------------------------ Go slicing
\* The runtime error a slice expression out of range panics with.
BoundsError == "slice bounds out of range"
\* s[lo:hi] is in range.
SliceOK(s, lo, hi) == 0 <= lo /\ lo <= hi /\ hi <= Len(s)
\* s[lo:hi].
Slice(s, lo, hi) == SubSeq(s, lo + 1, hi)

\* ------------------------------------------------------------- the model
\* The token kinds a transition emits with.
Kinds == {1}
\* The state functions of the caller; "nil" is the nil StateFunc.
States == {"lex"}
Nil == "nil"
\* The strings of acceptable characters handed to Take and TakeMany.
Chars == {<<97>>, <<97, 195, 169>>}
\* The patterns handed to TakePattern and TakeManyPattern, each as the set of
\* one-rune strings it matches.
Patterns == {{97}, {97, 233, RuneError}}
\* The messages handed to Error.
Messages == {"bad", "worse"}

RECURSIVE SeqsUpTo(_, _)
SeqsUpTo(S, n) ==
  IF n = 0 THEN {<<>>}
  ELSE LET shorter == SeqsUpTo(S, n - 1)
       IN shorter \cup {Append(q, b) : q \in {x \in shorter : Len(x) = n - 1}, b \in S}

\* The arguments handed to PeekMany.
PeekCounts == {0, 1, 2}

\* The inputs the lexer is run on: "", "a" and "a\u00e9\xa9", the last one
\* ending in a byte that is no UTF-8; their channel capacities are 1, 1 and 2.
Inputs == {<<>>, <<97>>, <<97, 195, 169, 169>>}
\* The inputs of channel capacity 1 among them.
LiveInputs == {<<>>, <<97>>}
\* The inputs the scanning calls are checked on: every byte string of up to
\* MaxScanLen bytes.
ScanInputs == SeqsUpTo(Bytes, MaxScanLen)

NoToken == [Type |-> ErrorToken, Value |-> <<>>, Start |-> -1, End |-> -1]

VARIABLES
  Input,        \* l.Input, a sequence of bytes
  Start,        \* l.Start
  Position,     \* l.Position
  Rewind,       \* l.Rewind, most recent rune first
  StateRecord,  \* l.StateRecord, most recent state first
  StartState,   \* l.StartState
  Err,          \* l.Err, "" for nil
  ErrorHandler, \* whether l.ErrorHandler is set
  Tokens,       \* the buffer of the channel l.Tokens
  cap,          \* the capacity of l.Tokens, 0 while the channel is nil
  closed,       \* whether l.Tokens is closed
  mode,         \* "new", "async" (RunLexer) or "sync" (RunLexerSync)
  pc,           \* where run is: "new", "loop", "in", "send", "spin", "done", "panic"
  state,        \* the local state of run
  tok,          \* the token a blocked Emit holds
  got,          \* what the last NextToken returned
  received,     \* history: the tokens NextToken has returned
  emitted,      \* history: the tokens sent on l.Tokens
  handled,      \* history: the messages l.ErrorHandler was called with
  reported,     \* history: the messages Error was called with
  ignored,      \* history: the byte offsets Ignore discarded
  mutated,      \* history: how often IgnoreCharacter has run
  orig,         \* history: the input the lexer was made for
  lastReturn,   \* history: what the last transition returned, "none" before any
  fault         \* the value run panicked with, "" while it has not

vars == <<Input, Start, Position, Rewind, StateRecord, StartState, Err,
          ErrorHandler, Tokens, cap, closed, mode, pc, state, tok, got,
          received, emitted, handled, reported, ignored, mutated, orig,
          lastReturn, fault>>

cursorVars == <<Input, Start, Position, Rewind>>
chanVars == <<Tokens, cap, closed>>
consumerVars == <<got, received>>
setupVars == <<StartState, ErrorHandler, mode, orig>>

NoGot == [tok |-> NoToken, done |-> FALSE, called |-> FALSE]

\* New(src, Start), for src among inputs and Start among starts, with the
\* error handler set or not as handlers says.
New(inputs, starts, handlers) ==
  /\ Input \in inputs
  /\ StartState \in starts
  /\ ErrorHandler \in handlers
  /\ orig = Input
  /\ Start = 0
  /\ Position = 0
  /\ Rewind = <<>>
  /\ StateRecord = <<>>
  /\ Err = ""
  /\ Tokens = <<>>
  /\ cap = 0
  /\ closed = FALSE
  /\ mode = "new"
  /\ pc = "new"
  /\ state = Nil
  /\ tok = NoToken
  /\ got = NoGot
  /\ received = <<>>
  /\ emitted = <<>>
  /\ handled = <<>>
  /\ reported = <<>>
  /\ ignored = {}
  /\ mutated = 0
  /\ lastReturn = "none"
  /\ fault = ""

\* The lexer of the main specification: no error handler is set, as New
\* leaves it.
Init == New(Inputs, States \cup {Nil}, {FALSE})

\* The lexer of the progress specification: an input of channel capacity 1,
\* with an error handler set or not.
LiveInit == New(LiveInputs, States \cup {Nil}, BOOLEAN)

\* The lexer of the state record specification, with an error handler set or
\* not.
RecordInit == New(LiveInputs, States, BOOLEAN)

\* The lexer of the scanning specification: any byte string, a start state and
\* no error handler.
ScanInit == New(ScanInputs, States, {FALSE})

\* ------------------------------------------------------------ rune stack
\* runeStack.Push.
RunePush(s, r) == <<r>> \o s
\* A Pop that returns the zero rune from an empty stack.
RunePopZero(s) ==
  IF s = <<>> THEN [r |-> 0, s |-> s] ELSE [r |-> Head(s), s |-> Tail(s)]

\* runeStack.Pop: the rune popped and the stack left.
RunePop(s) ==
  IF s = <<>> THEN [r |-> EOFToken, s |-> s] ELSE [r |-> Head(s), s |-> Tail(s)]
\* runeStack.Clear.
RuneClear(s) == <<>>

\* ----------------------------------------------------------- state stack
\* stateStack.Push.
StatePush(s, f) == <<f>> \o s
\* stateStack.Pop: the state popped (nil from an empty stack) and the stack left.
StatePop(s) ==
  IF s = <<>> THEN [f |-> Nil, s |-> s] ELSE [f |-> Head(s), s |-> Tail(s)]

\* stateStack.Clear.
StateClear(s) == <<>>

\* -------------------------------------------------- the scanning cursor
\* The cursor part of the lexer, as the scanning calls read and write it.
Cursor == [Input |-> Input, Start |-> Start, Position |-> Position, Rewind |-> Rewind]

\* What a scanning call leaves: the cursor, the value returned, and whether
\* the call panicked (panic), or never returns (spin).
Result(c, v) == [c |-> c, val |-> v, panic |-> FALSE, spin |-> FALSE]
Panicked(c) == [c |-> c, val |-> 0, panic |-> TRUE, spin |-> FALSE]
Spinning(c) == [c |-> c, val |-> 0, panic |-> FALSE, spin |-> TRUE]

\* BuffSize without the floor of 1.
BuffSizeHalf(n) == n \div 2

\* BuffSize: the channel capacity RunLexer and RunLexerSync compute.
BuffSize(n) == IF n \div 2 <= 0 THEN 1 ELSE n \div 2

\* L.Current.
CurrentOp(c) ==
  IF SliceOK(c.Input, c.Start, c.Position)
    THEN Result(c, Slice(c.Input, c.Start, c.Position))
    ELSE Panicked(c)

\* L.Next.
NextOp(c) ==
  IF ~SliceOK(c.Input, c.Position, Len(c.Input)) THEN Panicked(c)
  ELSE
    LET str == Slice(c.Input, c.Position, Len(c.Input))
        d == IF Len(str) = 0 THEN [r |-> EOFToken, s |-> 0]
             ELSE DecodeRuneInString(str)
    IN Result([c EXCEPT !.Position = c.Position + d.s,
                        !.Rewind = RunePush(c.Rewind, d.r)], d.r)

\* A Backup that takes reaching Start for passing it.
BackupOffByOne(c) ==
  LET p == RunePop(c.Rewind)
      c1 == [c EXCEPT !.Rewind = p.s]
  IN IF p.r > EOFToken
       THEN LET pos == c.Position - RuneLen(p.r)
            IN IF pos <= c.Start
                 THEN Result([c1 EXCEPT !.Position = c.Start], TRUE)
                 ELSE Result([c1 EXCEPT !.Position = pos], FALSE)
       ELSE Result(c1, FALSE)

\* L.Backup.
BackupOp(c) ==
  LET p == RunePop(c.Rewind)
      c1 == [c EXCEPT !.Rewind = p.s]
  IN IF p.r > EOFToken
       THEN LET pos == c.Position - RuneLen(p.r)
            IN IF pos < c.Start
                 THEN Result([c1 EXCEPT !.Position = c.Start], TRUE)
                 ELSE Result([c1 EXCEPT !.Position = pos], FALSE)
       ELSE Result(c1, FALSE)

\* L.Peek.
PeekOp(c) ==
  LET n == NextOp(c)
  IN IF n.panic THEN n ELSE Result(BackupOp(n.c).c, n.val)

\* The n Next calls of PeekMany: the cursor left and the last rune read.
RECURSIVE NextTimes(_, _, _)
NextTimes(c, n, r) ==
  IF n <= 0 THEN Result(c, r)
  ELSE LET x == NextOp(c)
       IN IF x.panic THEN x ELSE NextTimes(x.c, n - 1, x.val)

\* The n Backup calls of PeekMany.
RECURSIVE BackupTimes(_, _)
BackupTimes(c, n) == IF n <= 0 THEN c ELSE BackupTimes(BackupOp(c).c, n - 1)

\* L.PeekMany.
PeekManyOp(c, n) ==
  LET x == NextTimes(c, n, 0)
  IN IF x.panic THEN x ELSE Result(BackupTimes(x.c, n), x.val)

\* L.Take.
TakeOp(c, chars) ==
  LET x == NextOp(c)
  IN IF x.panic THEN x
     ELSE IF ContainsRune(chars, x.val) THEN Result(x.c, TRUE)
     ELSE Result(BackupOp(x.c).c, FALSE)

\* L.TakeMany.
RECURSIVE TakeManyOp(_, _)
TakeManyOp(c, chars) ==
  LET x == NextOp(c)
  IN IF x.panic THEN x
     ELSE IF ContainsRune(chars, x.val) THEN TakeManyOp(x.c, chars)
     ELSE Result(BackupOp(x.c).c, 0)

\* p.MatchString(string(r)).
MatchString(p, r) == StringOfRune(r) \in p

\* L.TakePattern.
TakePatternOp(c, p) ==
  LET x == NextOp(c)
  IN IF x.panic THEN x
     ELSE IF MatchString(p, x.val) THEN Result(x.c, TRUE)
     ELSE Result(BackupOp(x.c).c, FALSE)

\* L.TakeManyPattern. Once Next has returned EOFToken and p matches it, every
\* later Next returns it again and the loop never ends.
RECURSIVE TakeManyPatternOp(_, _)
TakeManyPatternOp(c, p) ==
  LET x == NextOp(c)
  IN IF x.panic THEN x
     ELSE IF MatchString(p, x.val)
       THEN IF x.val = EOFToken THEN Spinning(x.c) ELSE TakeManyPatternOp(x.c, p)
     ELSE Result(BackupOp(x.c).c, 0)

\* An Ignore that clears the rewind stack and leaves Start where it was.
IgnoreKeepsStart(c) == Result([c EXCEPT !.Rewind = RuneClear(c.Rewind)], 0)

\* L.Ignore.
IgnoreOp(c) == Result([c EXCEPT !.Start = c.Position, !.Rewind = RuneClear(c.Rewind)], 0)

\* L.IgnoreCharacter.
IgnoreCharacterOp(c) ==
  LET p == RunePop(c.Rewind)
      width == RuneLen(p.r)
  IN IF ~SliceOK(c.Input, 0, c.Position - width)
        \/ ~SliceOK(c.Input, c.Position, Len(c.Input))
       THEN Panicked([c EXCEPT !.Rewind = p.s])
       ELSE Result([c EXCEPT !.Rewind = p.s,
                             !.Input = Slice(c.Input, 0, c.Position - width)
                                       \o Slice(c.Input, c.Position, Len(c.Input)),
                             !.Position = c.Position - width], 0)

\* A token whose Value is cut from the beginning of the input.
MakeTokenFromZero(t, c) ==
  [Type |-> t, Value |-> Slice(c.Input, 0, c.Position),
   Start |-> c.Start, End |-> c.Position]

\* The token Emit builds.
MakeToken(t, c) ==
  [Type |-> t, Value |-> Slice(c.Input, c.Start, c.Position),
   Start |-> c.Start, End |-> c.Position]

\* ------------------------------------------------------------ the run
\* L.RunLexer: make the channel and start run in a goroutine.
RunLexer ==
  /\ pc = "new"
  /\ cap' = BuffSize(Len(Input))
  /\ mode' = "async"
  /\ state' = StartState
  /\ pc' = "loop"
  /\ UNCHANGED <<cursorVars, StateRecord, StartState, Err, ErrorHandler, Tokens,
                 closed, tok, consumerVars, emitted, handled, reported, ignored,
                 mutated, orig, lastReturn, fault>>

\* L.RunLexerSync: make the channel and call run.
RunLexerSync ==
  /\ pc = "new"
  /\ cap' = BuffSize(Len(Input))
  /\ mode' = "sync"
  /\ state' = StartState
  /\ pc' = "loop"
  /\ UNCHANGED <<cursorVars, StateRecord, StartState, Err, ErrorHandler, Tokens,
                 closed, tok, consumerVars, emitted, handled, reported, ignored,
                 mutated, orig, lastReturn, fault>>

\* run, the loop test passing: state is not nil and is called.
Invoke ==
  /\ pc = "loop"
  /\ state /= Nil
  /\ pc' = "in"
  /\ UNCHANGED <<cursorVars, StateRecord, Err, chanVars, state, tok,
                 consumerVars, emitted, handled, reported, ignored, mutated,
                 lastReturn, fault, setupVars>>

\* A run that closes the channel whatever state is.
CloseAnyState ==
  /\ pc = "loop"
  /\ closed' = TRUE
  /\ pc' = "done"
  /\ UNCHANGED <<cursorVars, StateRecord, Err, Tokens, cap, state, tok,
                 consumerVars, emitted, handled, reported, ignored, mutated,
                 lastReturn, fault, setupVars>>

\* A run that returns without closing the channel.
CloseForgotten ==
  /\ pc = "loop"
  /\ state = Nil
  /\ pc' = "done"
  /\ UNCHANGED <<cursorVars, StateRecord, Err, chanVars, state, tok,
                 consumerVars, emitted, handled, reported, ignored, mutated,
                 lastReturn, fault, setupVars>>

\* run, the loop test failing: state is nil and the channel is closed.
Close ==
  /\ pc = "loop"
  /\ state = Nil
  /\ closed' = TRUE
  /\ pc' = "done"
  /\ UNCHANGED <<cursorVars, StateRecord, Err, Tokens, cap, state, tok,
                 consumerVars, emitted, handled, reported, ignored, mutated,
                 lastReturn, fault, setupVars>>

\* The running state function returns next, a state function or nil.
Return(next) ==
  /\ pc = "in"
  /\ state' = next
  /\ lastReturn' = next
  /\ pc' = "loop"
  /\ UNCHANGED <<cursorVars, StateRecord, Err, chanVars, tok, consumerVars,
                 emitted, handled, reported, ignored, mutated, fault,
                 setupVars>>

\* ------------------------------------ the calls a state function makes
\* The running state function makes a scanning call, which leaves x.
Scan(x) ==
  /\ pc = "in"
  /\ Len(x.c.Rewind) <= MaxRewind
  /\ Input' = x.c.Input
  /\ Start' = x.c.Start
  /\ Position' = x.c.Position
  /\ Rewind' = x.c.Rewind
  /\ pc' = IF x.panic THEN "panic" ELSE IF x.spin THEN "spin" ELSE "in"
  /\ fault' = IF x.panic THEN BoundsError ELSE fault
  /\ UNCHANGED <<StateRecord, Err, chanVars, state, tok, consumerVars, emitted,
                 handled, reported, lastReturn, setupVars>>

DoNext == Scan(NextOp(Cursor)) /\ UNCHANGED <<ignored, mutated>>

DoBackup == Scan(BackupOp(Cursor)) /\ UNCHANGED <<ignored, mutated>>

DoPeek == Scan(PeekOp(Cursor)) /\ UNCHANGED <<ignored, mutated>>

DoPeekMany(n) == Scan(PeekManyOp(Cursor, n)) /\ UNCHANGED <<ignored, mutated>>

DoTake(chars) == Scan(TakeOp(Cursor, chars)) /\ UNCHANGED <<ignored, mutated>>

DoTakeMany(chars) ==
  Scan(TakeManyOp(Cursor, chars)) /\ UNCHANGED <<ignored, mutated>>

DoTakePattern(p) ==
  Scan(TakePatternOp(Cursor, p)) /\ UNCHANGED <<ignored, mutated>>

DoTakeManyPattern(p) ==
  Scan(TakeManyPatternOp(Cursor, p)) /\ UNCHANGED <<ignored, mutated>>

DoCurrent == Scan(CurrentOp(Cursor)) /\ UNCHANGED <<ignored, mutated>>

DoIgnore ==
  /\ Scan(IgnoreOp(Cursor))
  /\ ignored' = ignored \cup (Start .. Position - 1)
  /\ UNCHANGED mutated

DoIgnoreCharacter ==
  /\ mutated < MaxMutations
  /\ Scan(IgnoreCharacterOp(Cursor))
  /\ mutated' = mutated + 1
  /\ UNCHANGED ignored

\* A TakeManyPattern whose pattern matches at the end of input calls Next again.
Spin ==
  /\ pc = "spin"
  /\ Len(Rewind) < MaxRewind
  /\ Rewind' = NextOp(Cursor).c.Rewind
  /\ UNCHANGED <<Input, Start, Position, StateRecord, Err, chanVars, pc, state,
                 tok, consumerVars, emitted, handled, reported, ignored,
                 mutated, lastReturn, fault, setupVars>>

\* An Emit whose send never blocks.
DoEmitNoBlock(t) ==
  /\ pc = "in"
  /\ Len(emitted) < MaxEmits
  /\ LET cur == CurrentOp(Cursor)
     IN IF cur.panic
          THEN /\ pc' = "panic"
               /\ fault' = BoundsError
               /\ UNCHANGED <<cursorVars, Tokens, tok, emitted>>
          ELSE /\ Tokens' = Append(Tokens, MakeToken(t, Cursor))
               /\ emitted' = Append(emitted, MakeToken(t, Cursor))
               /\ Start' = Position
               /\ Rewind' = RuneClear(Rewind)
               /\ UNCHANGED <<Input, Position, pc, tok, fault>>
  /\ UNCHANGED <<StateRecord, Err, cap, closed, state, consumerVars, handled,
                 reported, ignored, mutated, lastReturn, setupVars>>

\* L.Emit(t): build the token and send it; the send blocks on a full buffer.
DoEmit(t) ==
  /\ pc = "in"
  /\ Len(emitted) < MaxEmits
  /\ LET cur == CurrentOp(Cursor)
     IN IF cur.panic
          THEN /\ pc' = "panic"
               /\ fault' = BoundsError
               /\ UNCHANGED <<cursorVars, Tokens, tok, emitted>>
        ELSE IF Len(Tokens) < cap
          THEN /\ Tokens' = Append(Tokens, MakeToken(t, Cursor))
               /\ emitted' = Append(emitted, MakeToken(t, Cursor))
               /\ Start' = Position
               /\ Rewind' = RuneClear(Rewind)
               /\ UNCHANGED <<Input, Position, pc, tok, fault>>
        ELSE /\ tok' = MakeToken(t, Cursor)
             /\ pc' = "send"
             /\ UNCHANGED <<cursorVars, Tokens, emitted, fault>>
  /\ UNCHANGED <<StateRecord, Err, cap, closed, state, consumerVars, handled,
                 reported, ignored, mutated, lastReturn, setupVars>>

\* The blocked send of Emit goes through, and Emit finishes.
EmitResume ==
  /\ pc = "send"
  /\ Len(Tokens) < cap
  /\ Tokens' = Append(Tokens, tok)
  /\ emitted' = Append(emitted, tok)
  /\ tok' = NoToken
  /\ Start' = Position
  /\ Rewind' = RuneClear(Rewind)
  /\ pc' = "in"
  /\ UNCHANGED <<Input, Position, StateRecord, Err, cap, closed, state,
                 consumerVars, handled, reported, ignored, mutated, lastReturn,
                 fault, setupVars>>

\* An Error that returns when no handler is set.
DoErrorSilent(e) ==
  /\ pc = "in"
  /\ IF ErrorHandler
       THEN /\ Len(handled) < MaxErrors
            /\ Err' = e
            /\ handled' = Append(handled, e)
       ELSE /\ Len(reported) < MaxErrors
            /\ UNCHANGED <<Err, handled>>
  /\ reported' = Append(reported, e)
  /\ UNCHANGED <<cursorVars, StateRecord, chanVars, pc, state, tok,
                 consumerVars, emitted, ignored, mutated, lastReturn, fault,
                 setupVars>>

\* An Error that calls the handler and leaves l.Err as it was.
DoErrorKeepsErr(e) ==
  /\ pc = "in"
  /\ IF ErrorHandler
       THEN /\ Len(handled) < MaxErrors
            /\ handled' = Append(handled, e)
            /\ UNCHANGED <<Err, pc, fault>>
       ELSE /\ pc' = "panic"
            /\ fault' = e
            /\ UNCHANGED <<Err, handled>>
  /\ reported' = Append(reported, e)
  /\ UNCHANGED <<cursorVars, StateRecord, chanVars, state, tok, consumerVars,
                 emitted, ignored, mutated, lastReturn, setupVars>>

\* L.Error(e): with a handler, keep e in l.Err and call the handler with it;
\* with none, panic(e).
DoError(e) ==
  /\ pc = "in"
  /\ IF ErrorHandler
       THEN /\ Len(handled) < MaxErrors
            /\ Err' = e
            /\ handled' = Append(handled, e)
            /\ UNCHANGED <<pc, fault>>
       ELSE /\ pc' = "panic"
            /\ fault' = e
            /\ UNCHANGED <<Err, handled>>
  /\ reported' = Append(reported, e)
  /\ UNCHANGED <<cursorVars, StateRecord, chanVars, state, tok, consumerVars,
                 emitted, ignored, mutated, lastReturn, setupVars>>

\* l.StateRecord.Push(f).
DoRecordPush(f) ==
  /\ pc = "in"
  /\ Len(StateRecord) < MaxRecord
  /\ StateRecord' = StatePush(StateRecord, f)
  /\ UNCHANGED <<cursorVars, Err, chanVars, pc, state, tok, consumerVars,
                 emitted, handled, reported, ignored, mutated, lastReturn,
                 fault, setupVars>>

\* l.StateRecord.Pop().
DoRecordPop ==
  /\ pc = "in"
  /\ StateRecord' = StatePop(StateRecord).s
  /\ UNCHANGED <<cursorVars, Err, chanVars, pc, state, tok, consumerVars,
                 emitted, handled, reported, ignored, mutated, lastReturn,
                 fault, setupVars>>

\* l.StateRecord.Clear().
DoRecordClear ==
  /\ pc = "in"
  /\ StateRecord' = StateClear(StateRecord)
  /\ UNCHANGED <<cursorVars, Err, chanVars, pc, state, tok, consumerVars,
                 emitted, handled, reported, ignored, mutated, lastReturn,
                 fault, setupVars>>

\* ------------------------------------------------------- the consumer
\* A caller free to receive as soon as either RunLexer or RunLexerSync is called.
CallerFreeAtOnce == pc /= "new" /\ pc /= "panic"

\* The caller is free to receive: RunLexer has returned, or RunLexerSync has.
CallerFree == (mode = "async" \/ (mode = "sync" /\ pc = "done")) /\ pc /= "panic"

\* A NextToken that receives twice and returns the second token.
NextTokenTwice ==
  /\ CallerFree
  /\ \/ /\ Len(Tokens) >= 2
        /\ got' = [tok |-> Tokens[2], done |-> FALSE, called |-> TRUE]
        /\ received' = Append(received, Tokens[2])
        /\ Tokens' = Tail(Tail(Tokens))
     \/ /\ Len(Tokens) = 1
        /\ closed
        /\ got' = [tok |-> NoToken, done |-> TRUE, called |-> TRUE]
        /\ Tokens' = <<>>
        /\ UNCHANGED received
     \/ /\ Tokens = <<>>
        /\ closed
        /\ got' = [tok |-> NoToken, done |-> TRUE, called |-> TRUE]
        /\ UNCHANGED <<received, Tokens>>
  /\ UNCHANGED <<cursorVars, StateRecord, Err, cap, closed, pc, state, tok,
                 emitted, handled, reported, ignored, mutated, lastReturn,
                 fault, setupVars>>

\* A NextToken that does not wait: an empty buffer counts as the end.
NextTokenEager ==
  /\ CallerFree
  /\ \/ /\ Tokens /= <<>>
        /\ got' = [tok |-> Head(Tokens), done |-> FALSE, called |-> TRUE]
        /\ received' = Append(received, Head(Tokens))
        /\ Tokens' = Tail(Tokens)
     \/ /\ Tokens = <<>>
        /\ got' = [tok |-> NoToken, done |-> TRUE, called |-> TRUE]
        /\ UNCHANGED <<received, Tokens>>
  /\ UNCHANGED <<cursorVars, StateRecord, Err, cap, closed, pc, state, tok,
                 emitted, handled, reported, ignored, mutated, lastReturn,
                 fault, setupVars>>

\* L.NextToken: receive a token, or learn that the channel is closed and empty.
NextToken ==
  /\ CallerFree
  /\ \/ /\ Tokens /= <<>>
        /\ got' = [tok |-> Head(Tokens), done |-> FALSE, called |-> TRUE]
        /\ received' = Append(received, Head(Tokens))
        /\ Tokens' = Tail(Tokens)
     \/ /\ Tokens = <<>>
        /\ closed
        /\ got' = [tok |-> NoToken, done |-> TRUE, called |-> TRUE]
        /\ UNCHANGED <<received, Tokens>>
  /\ UNCHANGED <<cursorVars, StateRecord, Err, cap, closed, pc, state, tok,
                 emitted, handled, reported, ignored, mutated, lastReturn,
                 fault, setupVars>>

\* The steps of run: the loop, the state functions and the calls they make.
Steps ==
  \/ Invoke
  \/ Close
  \/ \E next \in States \cup {Nil} : Return(next)
  \/ DoNext
  \/ DoBackup
  \/ DoPeek
  \/ \E n \in PeekCounts : DoPeekMany(n)
  \/ \E chars \in Chars : DoTake(chars)
  \/ \E chars \in Chars : DoTakeMany(chars)
  \/ \E p \in Patterns : DoTakePattern(p)
  \/ \E p \in Patterns : DoTakeManyPattern(p)
  \/ DoCurrent
  \/ DoIgnore
  \/ DoIgnoreCharacter
  \/ Spin
  \/ \E t \in Kinds : DoEmit(t)
  \/ \E e \in Messages : DoError(e)

Next ==
  \/ RunLexer
  \/ RunLexerSync
  \/ Steps
  \/ EmitResume
  \/ NextToken

Spec == Init /\ [][Next]_vars

\* The run on an input of channel capacity 1: the goroutine of run goes on
\* whenever it can, and so does a caller that keeps calling NextToken.
LiveSpec ==
  /\ LiveInit
  /\ [][Next]_vars
  /\ WF_vars(Close)
  /\ WF_vars(EmitResume)
  /\ WF_vars(NextToken)

\* The run RunLexer starts, on any byte string, while the caller does not
\* receive: a blocked Emit stays blocked.
ScanNext ==
  \/ RunLexer
  \/ Steps

ScanSpec == ScanInit /\ [][ScanNext]_vars

\* The same run, with a state function that also uses the state record.
RecordNext ==
  \/ ScanNext
  \/ \E f \in States \cup {Nil} : DoRecordPush(f)
  \/ DoRecordPop
  \/ DoRecordClear

RecordSpec == RecordInit /\ [][RecordNext]_vars

\* ------------------------------------------------------------ the claims
\* C1: whatever the interleaving of run and the caller, the tokens NextToken
\* has returned, followed by the tokens still in the channel, are the tokens
\* sent, in the order sent, each once; once NextToken has reported the end,
\* the tokens returned are all the tokens sent.
C1_Delivery ==
  /\ emitted = received \o Tokens
  /\ got.done => received = emitted
  /\ (got.called /\ ~got.done) => (received /= <<>> /\ got.tok = received[Len(received)])

\* C1 witness: a caller of RunLexer has received two different tokens, then the end.
C1_Witness ==
  /\ mode = "async"
  /\ got.done
  /\ Len(received) = 2
  /\ received[1] /= received[2]

\* C2: NextToken reports the end only once run has closed the channel and
\* returned and every token sent has been received; while a token is in the
\* channel, a NextToken call returns the oldest one and not the end.
C2_EndLast ==
  /\ [](got.done => (closed /\ pc = "done" /\ Tokens = <<>> /\ received = emitted))
  /\ [][(Tokens /= <<>> /\ (got' /= got \/ received' /= received))
          => /\ got' = [tok |-> Head(Tokens), done |-> FALSE, called |-> TRUE]
             /\ received' = Append(received, Head(Tokens))]_vars

\* C2 witness: the end is reported after a run that sent tokens.
C2_Witness == got.done /\ emitted /= <<>> /\ received = emitted

\* C3 as stated: the channel is closed only after a state function has
\* returned nil, with the run over.
C3_AsStated == closed => (lastReturn = Nil /\ pc = "done" /\ state = Nil)

\* C3, amended: run closes the channel exactly once, as its last step: the
\* channel is closed exactly when run has returned, the one step that closes it
\* is taken from an open channel by a run that has found state nil, which is
\* after a state function returned nil or at once when StartState is nil, and
\* never while a state function remains to be called; once it is closed, it
\* stays closed and is not closed again, no token is sent, no state function
\* is called and the cursor is left alone.
C3_ClosedOnce ==
  /\ [](closed <=> pc = "done")
  /\ [](closed => /\ state = Nil
                  /\ \/ lastReturn = Nil
                     \/ (lastReturn = "none" /\ StartState = Nil))
  /\ [][closed => UNCHANGED <<closed, pc, state, lastReturn, emitted, tok,
                              cursorVars>>]_vars
  /\ [][closed' /= closed =>
          (~closed /\ closed' /\ pc = "loop" /\ state = Nil /\ pc' = "done")]_vars
  /\ [][(pc' = "done" /\ pc /= "done") => (~closed /\ closed')]_vars

\* C3 witness: the channel is closed after a state function that sent a token
\* returned nil.
C3_Witness == closed /\ lastReturn = Nil /\ emitted /= <<>>

\* C4: under RunLexer, once run has found state nil, a caller that keeps
\* calling NextToken receives every token sent and then the end; and an Emit
\* blocked on a full channel goes through.
C4_Progress ==
  /\ (mode = "async" /\ pc = "loop" /\ state = Nil)
       ~> (got.done /\ received = emitted)
  /\ (mode = "async" /\ pc = "send") ~> (pc = "in")

\* C4 witness: the caller of RunLexer has the end of a run that sent more
\* tokens than the channel holds.
C4_Witness == mode = "async" /\ got.done /\ Len(emitted) > cap /\ received = emitted

\* C5: under RunLexerSync the caller receives nothing before run is over and
\* the channel closed; an Emit that finds the channel full stays blocked for
\* good, which happens at the first token beyond the capacity; a run that is
\* over has sent no more than the capacity, and its tokens are received in order.
C5_SyncRun ==
  /\ [](mode = "sync" =>
          /\ pc /= "done" => (~got.called /\ received = <<>> /\ ~closed)
          /\ pc = "send" => (Len(Tokens) = cap /\ Len(emitted) = cap)
          /\ pc = "done" => (closed /\ Len(emitted) <= cap
                             /\ emitted = received \o Tokens))
  /\ [][(mode = "sync" /\ pc = "send") => UNCHANGED vars]_vars

\* C5 witness: under RunLexerSync, an Emit is blocked on the full channel.
C5_Witness == mode = "sync" /\ pc = "send" /\ Len(Tokens) = cap /\ ~closed

\* C6: the channel never holds more tokens than its capacity; Emit sends at
\* once when the channel has room, and blocks exactly when it is full: the
\* blocked Emit has sent nothing and has left Start and the rewind stack
\* alone, and it goes on only once the channel has room.
C6_Backpressure ==
  /\ [](Len(Tokens) <= cap)
  /\ [](pc = "send" => (tok.Start = Start /\ tok.End = Position))
  /\ [][/\ (pc = "in" /\ pc' = "send")
            => (Len(Tokens) = cap /\ UNCHANGED <<Tokens, emitted, cursorVars>>)
        /\ (pc = "in" /\ emitted' /= emitted) => (Len(Tokens) < cap /\ pc' = "in")
        /\ (pc = "send" /\ pc' = "send") => UNCHANGED <<emitted, cursorVars, tok>>
        /\ (pc = "send" /\ pc' /= "send")
            => (Len(Tokens) < cap /\ emitted' = Append(emitted, tok))]_vars

\* C6 witness: an Emit is blocked on a full channel that holds a token.
C6_Witness == pc = "send" /\ Len(Tokens) = cap /\ cap >= 1

\* C7: the capacity either RunLexer or RunLexerSync gives the channel is half
\* the byte length of the input, rounded down, and 1 when that is 0.
C7_Capacity ==
  mode /= "new" =>
    /\ cap >= 1
    /\ cap = IF Len(orig) \div 2 >= 1 THEN Len(orig) \div 2 ELSE 1
    /\ 2 * cap <= Len(orig) \/ cap = 1

\* C7 witness: RunLexerSync on the empty input made a channel of capacity 1.
C7_Witness == mode = "sync" /\ Len(orig) = 0 /\ cap = 1

\* C8: after any sequence of scanning calls that returned, on any input,
\* Start <= Position <= len(Input).
C8_CursorInBounds == pc /= "panic" => (Start <= Position /\ Position <= Len(Input))

\* C9: the token an Emit sends has Start and End equal to l.Start and
\* l.Position at the call, with 0 <= Start <= End <= len(Input), and its Value
\* is Input[Start:End]; it is sent behind the tokens already in the channel,
\* and it is what NextToken returns once those are received; the Emit leaves
\* Start equal to Position and the rewind stack empty.
C9_TokenIsLexeme ==
  /\ [][emitted' /= emitted =>
         LET t == emitted'[Len(emitted')]
         IN /\ emitted' = Append(emitted, t)
            /\ t.Type \in Kinds
            /\ t.Start = Start
            /\ t.End = Position
            /\ 0 <= t.Start /\ t.Start <= t.End /\ t.End <= Len(Input)
            /\ t.Value = SubSeq(Input, Start + 1, Position)
            /\ Tokens' = Append(Tokens, t)
            /\ Input' = Input
            /\ Position' = Position
            /\ Start' = Position
            /\ Rewind' = <<>>]_vars
  /\ []((got.called /\ ~got.done) => got.tok = emitted[Len(received)])

\* C9 witness: NextToken has returned, as the second token of a run, the
\* two bytes of U+00E9 that the run consumed after its first token.
C9_Witness ==
  /\ Len(received) = 2
  /\ got.tok = [Type |-> 1, Value |-> <<195, 169>>, Start |-> 1, End |-> 3]
  /\ Start = Position

\* The byte offsets of the i-th token sent.
SpanOf(i) == emitted[i].Start .. emitted[i].End - 1

\* C10: in a run without IgnoreCharacter, each token sent starts at or after
\* the end of the token sent before it, its Value is that span of the original
\* input, and the spans of the tokens together with the spans passed to
\* Ignore split the bytes before Start, none of them twice.
C10_Spans ==
  mutated = 0 =>
    /\ \A i \in 1 .. Len(emitted) :
         /\ 0 <= emitted[i].Start /\ emitted[i].Start <= emitted[i].End
         /\ emitted[i].Value = SubSeq(orig, emitted[i].Start + 1, emitted[i].End)
         /\ SpanOf(i) \cap ignored = {}
    /\ \A i \in 1 .. Len(emitted) - 1 : emitted[i].End <= emitted[i + 1].Start
    /\ \A i, j \in 1 .. Len(emitted) : i /= j => SpanOf(i) \cap SpanOf(j) = {}
    /\ UNION {SpanOf(i) : i \in 1 .. Len(emitted)} \cup ignored = 0 .. Start - 1
    /\ Start <= Position /\ Position <= Len(orig)

\* C10 witness: a run sent "a", passed the two bytes after it to Ignore and
\* sent the byte behind them.
C10_Witness ==
  /\ mutated = 0
  /\ Len(emitted) = 2
  /\ emitted[1].End = 1
  /\ emitted[2].Start = 3
  /\ emitted[2].End = 4
  /\ ignored = {1, 2}

\* C11: wherever a state function stands, on any input, Peek returns the rune
\* a following Next returns and leaves Input, Start, Position and the rewind
\* stack as they were, so that any number of Peek calls in a row return the
\* same rune; and PeekMany(n) leaves them as they were too, also when its n
\* Next calls run past the end of the input.
C11_PeekIdempotent ==
  pc = "in" =>
    /\ ~PeekOp(Cursor).panic
    /\ PeekOp(Cursor).val = NextOp(Cursor).val
    /\ PeekOp(Cursor).c = Cursor
    /\ \A n \in PeekCounts :
         /\ ~PeekManyOp(Cursor, n).panic
         /\ PeekManyOp(Cursor, n).c = Cursor

\* A state function stands at a lexeme boundary: nothing is consumed since the
\* last Emit or Ignore, or since New.
AtBoundary == pc = "in" /\ Rewind = <<>> /\ Start = Position

\* The cursor after a Next and one Backup, and the second Backup after them.
FirstBackup == BackupOp(NextOp(Cursor).c)
SecondBackup == BackupOp(FirstBackup.c)

\* C12 as stated: after a Next at a lexeme boundary and one Backup, a second
\* Backup returns true and leaves Position at Start.
C12_AsStated ==
  (AtBoundary /\ ~NextOp(Cursor).panic) =>
    (SecondBackup.val = TRUE /\ SecondBackup.c.Position = Start)

\* C12, amended: after a Next at a lexeme boundary, one Backup brings Position
\* back to Start and empties the rewind stack; a second Backup finds the stack
\* empty, returns false and changes nothing: Position stays at Start, neither
\* below it nor negative.
C12_SecondBackup ==
  (AtBoundary /\ ~NextOp(Cursor).panic) =>
    /\ FirstBackup.c.Position = Start
    /\ FirstBackup.c.Rewind = <<>>
    /\ SecondBackup.val = FALSE
    /\ SecondBackup.c = FirstBackup.c
    /\ SecondBackup.c.Position = Start
    /\ SecondBackup.c.Position >= 0

\* C12 witness: at a lexeme boundary behind a first lexeme, the next rune is
\* U+00E9; Next and Backup bring the cursor back, a second Backup returns false.
C12_Witness ==
  /\ AtBoundary
  /\ Start = 1
  /\ NextOp(Cursor).val = 233
  /\ NextOp(Cursor).c.Position = 3
  /\ FirstBackup.c.Position = 1
  /\ SecondBackup.val = FALSE

\* C13: once Error is called with no handler set, run has panicked with the
\* message and is over for good: the call sends nothing and calls no handler,
\* and after it no token is sent or received, no state function is called or
\* returns, the channel is not closed and the cursor is left alone.
C13_FailLoud ==
  /\ []((reported /= <<>> /\ ~ErrorHandler) =>
          /\ pc = "panic"
          /\ Len(reported) = 1
          /\ fault = reported[1]
          /\ handled = <<>>
          /\ Err = ""
          /\ ~closed)
  /\ [][(~ErrorHandler /\ reported' /= reported) =>
          (pc = "in" /\ UNCHANGED <<emitted, Tokens, received, state, closed,
                                    cursorVars>>)]_vars
  /\ [][(fault \in Messages) =>
          UNCHANGED <<emitted, Tokens, received, got, pc, state, lastReturn,
                      closed, cursorVars, reported, fault>>]_vars

\* C13 witness: a state function that a state function before it returned
\* called Error("worse") with no handler set, with a token still in the channel.
C13_Witness ==
  /\ ~ErrorHandler
  /\ reported = <<"worse">>
  /\ fault = "worse"
  /\ pc = "panic"
  /\ lastReturn = "lex"
  /\ Tokens /= <<>>

\* C14: with a handler set, each Error call keeps its message in l.Err and
\* calls the handler once, with that message; the call does not end the run,
\* sends no token and leaves Input, Start, Position, the rewind stack and the
\* state record alone; the run goes on in the same state function, and the
\* channel is closed only once a state function has returned nil.
C14_Handled ==
  /\ [](ErrorHandler =>
          /\ handled = reported
          /\ Err = (IF reported = <<>> THEN "" ELSE reported[Len(reported)])
          /\ fault \notin Messages
          /\ closed => lastReturn = Nil)
  /\ [][(ErrorHandler /\ reported' /= reported) =>
          (\E e \in Messages :
             /\ reported' = Append(reported, e)
             /\ handled' = Append(handled, e)
             /\ Err' = e
             /\ pc = "in"
             /\ UNCHANGED <<pc, state, lastReturn, cursorVars, StateRecord,
                            chanVars, emitted, tok, fault>>)]_vars
  /\ [][(ErrorHandler /\ closed' /= closed) => (pc = "loop" /\ state = Nil)]_vars

\* C14 witness: with a handler set and a state on the state record, a state
\* function called Error("worse") and went on; the run ended when a state
\* function returned nil.
C14_Witness ==
  /\ ErrorHandler
  /\ handled = <<"worse">>
  /\ Err = "worse"
  /\ StateRecord /= <<>>
  /\ Position > 0
  /\ closed
  /\ lastReturn = Nil

\* The offset behind the longest run of runes of chars in s from offset pos on,
\* the runes of s being those a range loop over s yields.
RECURSIVE RunEnd(_, _, _)
RunEnd(s, pos, chars) ==
  IF pos >= Len(s) THEN pos
  ELSE LET d == DecodeRuneInString(SubSeq(s, pos + 1, Len(s)))
       IN IF d.r \in RunesOf(chars) THEN RunEnd(s, pos + d.s, chars) ELSE pos

\* C15: wherever a state function stands, on any input and for any string of
\* acceptable characters, TakeMany returns, leaves Input and Start alone and
\* leaves Position behind the longest run of acceptable runes that begins at
\* Position: where it was when the first rune is not acceptable, at the end of
\* the input when every rune left is.
C15_MaximalRun ==
  pc = "in" =>
    \A chars \in Chars :
      /\ ~TakeManyOp(Cursor, chars).panic
      /\ TakeManyOp(Cursor, chars).c.Input = Input
      /\ TakeManyOp(Cursor, chars).c.Start = Start
      /\ TakeManyOp(Cursor, chars).c.Position = RunEnd(Input, Position, chars)

\* C16: no call but an Error with no handler set panics: on any input and after
\* any calls, run has panicked only with a message handed to Error; and Next
\* at the end of the input returns EOFToken, Pop of an empty rewind stack
\* returns EOFToken and Pop of an empty state record returns nil.
C16_NoFault ==
  /\ pc = "panic" => fault \in Messages
  /\ pc = "in" =>
       /\ ~NextOp(Cursor).panic
       /\ ~IgnoreCharacterOp(Cursor).panic
       /\ Position = Len(Input) => NextOp(Cursor).val = EOFToken
       /\ Rewind = <<>> => RunePop(Rewind).r = EOFToken
       /\ StateRecord = <<>> => StatePop(StateRecord).f = Nil

\* The cursor after a Next, and after the IgnoreCharacter that follows it.
AfterNext == NextOp(Cursor).c
AfterIgnoreCharacter == IgnoreCharacterOp(AfterNext)

\* C17: wherever a state function stands, when Next returns a rune other than
\* EOFToken, having consumed w bytes, an IgnoreCharacter right after it
\* returns and removes those w bytes from Input and nothing else: Input is w
\* bytes shorter, the bytes before and behind them are as they were, Position
\* is back where it was before the Next, Start is as it was, the rewind stack
\* has lost the rune Next pushed, and Current is as it was before the Next.
C17_ExcisesLastUnit ==
  (pc = "in" /\ ~NextOp(Cursor).panic /\ NextOp(Cursor).val /= EOFToken) =>
    LET w == AfterNext.Position - Position
    IN /\ w >= 1
       /\ ~AfterIgnoreCharacter.panic
       /\ Len(AfterIgnoreCharacter.c.Input) = Len(Input) - w
       /\ AfterIgnoreCharacter.c.Input
            = SubSeq(Input, 1, Position) \o SubSeq(Input, Position + w + 1, Len(Input))
       /\ AfterIgnoreCharacter.c.Position = Position
       /\ AfterIgnoreCharacter.c.Start = Start
       /\ AfterIgnoreCharacter.c.Rewind = Rewind
       /\ CurrentOp(AfterIgnoreCharacter.c).val = CurrentOp(Cursor).val

\* The offset behind the longest run of runes that p matches in s from offset
\* pos on.
RECURSIVE PatternRunEnd(_, _, _)
PatternRunEnd(s, pos, p) ==
  IF pos >= Len(s) THEN pos
  ELSE LET d == DecodeRuneInString(SubSeq(s, pos + 1, Len(s)))
       IN IF d.r \in p THEN PatternRunEnd(s, pos + d.s, p) ELSE pos

\* C18: wherever a state function stands, on any input and for any pattern,
\* TakeManyPattern returns: it does not go on calling Next for ever and it does
\* not panic; it leaves Position within the input, behind the longest run of
\* runes the pattern matches: at the first rune the pattern does not match,
\* or at the end of the input, also for a pattern that matches what Next
\* returns there.
C18_PatternRun ==
  /\ pc /= "spin"
  /\ pc = "in" =>
       \A p \in Patterns :
         /\ ~TakeManyPatternOp(Cursor, p).spin
         /\ ~TakeManyPatternOp(Cursor, p).panic
         /\ TakeManyPatternOp(Cursor, p).c.Position <= Len(Input)
         /\ TakeManyPatternOp(Cursor, p).c.Position = PatternRunEnd(Input, Position, p)

\* The runes of s from offset lo up to offset hi, the last one first.
RECURSIVE Consumed(_, _, _)
Consumed(s, lo, hi) ==
  IF lo >= hi \/ lo >= Len(s) THEN <<>>
  ELSE LET d == DecodeRuneInString(SubSeq(s, lo + 1, Len(s)))
       IN Consumed(s, lo + d.s, hi) \o <<d.r>>

\* The bytes the runes of a rewind stack take when encoded.
RECURSIVE WidthSum(_)
WidthSum(s) == IF s = <<>> THEN 0 ELSE RuneLen(Head(s)) + WidthSum(Tail(s))

\* C19: while run has not failed, the rewind stack holds, the most recent
\* first, the runes of Input between Start and Position and nothing else: no
\* entry is EOFToken, and the widths of the entries add up to Position - Start;
\* Emit and Ignore leave it empty, a Next before the end of the input adds one
\* entry and a Backup removes one.
C19_RewindJournal ==
  (pc /= "panic" /\ pc /= "spin") =>
    /\ \A i \in 1 .. Len(Rewind) : Rewind[i] /= EOFToken
    /\ WidthSum(Rewind) = Position - Start
    /\ Rewind = Consumed(Input, Start, Position)
    /\ IgnoreOp(Cursor).c.Rewind = <<>>
    /\ Position < Len(Input) => Len(NextOp(Cursor).c.Rewind) = Len(Rewind) + 1
    /\ Rewind /= <<>> => Len(BackupOp(Cursor).c.Rewind) = Len(Rewind) - 1

\* The entries of a rewind stack that are runes of the input.
RealRunes(s) == SelectSeq(s, LAMBDA r : r /= EOFToken)

\* C20: in a run on valid UTF-8 that does not call IgnoreCharacter, wherever a
\* state function stands, Backup returns false; when it pops a rune of the
\* input, it moves Position back by the bytes Next consumed for that rune, not
\* below Start, to where the Next that pushed the rune started: a Next from
\* there returns the same rune and leads back to the same cursor. And whatever
\* the input, Backup returns true only when the input holds an invalid byte.
C20_BackupUndoesNext ==
  (pc = "in" /\ mutated = 0) =>
    /\ BackupOp(Cursor).val => ~ValidString(orig)
    /\ ValidString(orig) =>
         /\ BackupOp(Cursor).val = FALSE
         /\ RealRunes(Rewind) = Consumed(Input, Start, Position)
         /\ (Rewind /= <<>> /\ Head(Rewind) /= EOFToken) =>
              /\ BackupOp(Cursor).c.Position = Position - RuneLen(Head(Rewind))
              /\ BackupOp(Cursor).c.Position >= Start
              /\ NextOp(BackupOp(Cursor).c).val = Head(Rewind)
              /\ NextOp(BackupOp(Cursor).c).c = Cursor

\* C20 witness: on valid UTF-8, behind a first lexeme of one byte, Next has
\* consumed the two bytes of U+00E9; Backup brings Position back to Start and
\* returns false.
C20_Witness ==
  /\ pc = "in"
  /\ mutated = 0
  /\ ValidString(orig)
  /\ Start = 1
  /\ Position = 3
  /\ Rewind = <<233>>
  /\ BackupOp(Cursor).c.Position = 1
  /\ BackupOp(Cursor).val = FALSE

====
